---- MODULE Spec2Model ----
(***************************************************************************)
(* The incident dashboard of src/src/components/Dashboard.tsx: the         *)
(* in-memory record set and form/popup state of the Dashboard component,   *)
(* the IndexedDB object store behind loadIncidentsFromDB and               *)
(* saveIncidentsToDB, and the filter -> search -> sort view derivation.    *)
(*                                                                         *)
(* Strings are tuples of one-character strings, so that toLowerCase and    *)
(* includes are computed.  A time is a number of clock units; an ISO       *)
(* string is the pair (date, time of day) that toISOString prints.         *)
(* Every handler is one action, with the effects React runs after the      *)
(* render it causes (the save effect and the view effect) as part of it.   *)
(* An asynchronous storage call is a request in the connection queue dbq   *)
(* (indexedDB.open, served in order), then a transaction in txq (served    *)
(* in creation order), whose requests run on the working copy txnWork;     *)
(* only a completed transaction reaches the variable store.                *)
(***************************************************************************)
EXTENDS Integers, Sequences, FiniteSets, TLC

\* ------------------------------------------------------------ bounds
MaxTicks == 1        \* the clock takes the values ClockStart .. ClockStart + MaxTicks
MaxPending == 1      \* user mutations wait while this many saves are pending
MaxBurst == 2        \* the same, in SpecBurst
MaxMutations == 2    \* creates and confirmed deletes in one run
DayLen == 2          \* clock units per day in toISOString / getTime
MaxViewLen == 3      \* longest record sequence SpecView draws

ClockStart == 6      \* Date.now() of the first clock reading (later than the seed dates)
MaxClock == ClockStart + MaxTicks

\* ------------------------------------------------------------ strings
Empty == <<>>
TitleAb == <<"A", "b">>
DescB == <<"b", "c">>
Titles == {Empty, TitleAb}                 \* values typed into the title input
Descriptions == {Empty, DescB}             \* values typed into the description input
SearchTerms == {Empty, <<"a">>, <<"B">>}   \* values typed into the search input
Severities == {"Low", "Medium", "High"}
Filters == Severities \cup {"All"}
SortOrders == {"newest", "oldest"}

toLowerCase(s) ==
  [i \in 1..Len(s) |->
     CASE s[i] = "A" -> "a"
       [] s[i] = "B" -> "b"
       [] s[i] = "C" -> "c"
       [] s[i] = "L" -> "l"
       [] s[i] = "M" -> "m"
       [] OTHER -> s[i]]

includes(hay, needle) ==
  \E i \in 0..(Len(hay) - Len(needle)) :
     \A k \in 1..Len(needle) : hay[i + k] = needle[k]

\* ------------------------------------------------------------ dates
toISOString(t) == [date |-> t \div DayLen, time |-> t % DayLen]
getTime(iso) == iso.date * DayLen + iso.time

\* ------------------------------------------------------------ records
Range(s) == {s[i] : i \in 1..Len(s)}
Ids(S) == {r.id : r \in S}

initialIncidents ==
  << [id |-> 1, title |-> <<"B", "i">>, description |-> <<"a", "l">>,
      severity |-> "Medium", reported_at |-> [date |-> 0, time |-> 1]],
     [id |-> 2, title |-> <<"L", "L">>, description |-> <<"L", "p">>,
      severity |-> "High", reported_at |-> [date |-> 2, time |-> 0]],
     [id |-> 3, title |-> <<"M", "i">>, description |-> <<"C", "h">>,
      severity |-> "Low", reported_at |-> [date |-> 1, time |-> 0]] >>

emptyForm == [title |-> Empty, description |-> Empty, severity |-> "Low"]
closedPopup == [isOpen |-> FALSE, incidentId |-> 0, title |-> Empty]
noToast == "none"

\* ------------------------------------------------------------ view derivation
\* Mutant of compare: the two orders are swapped.
compareSwapped(a, b, order) ==
  IF order = "newest"
    THEN getTime(a.reported_at) - getTime(b.reported_at)
    ELSE getTime(b.reported_at) - getTime(a.reported_at)

compare(a, b, order) ==
  IF order = "newest"
    THEN getTime(b.reported_at) - getTime(a.reported_at)
    ELSE getTime(a.reported_at) - getTime(b.reported_at)

\* Array.prototype.sort: a stable sort by the comparator (insertion of each
\* element after the last one that does not compare greater).
RECURSIVE insertSorted(_, _, _)
insertSorted(sorted, r, order) ==
  IF sorted = <<>> THEN <<r>>
  ELSE IF compare(sorted[Len(sorted)], r, order) <= 0
         THEN Append(sorted, r)
         ELSE Append(insertSorted(SubSeq(sorted, 1, Len(sorted) - 1), r, order),
                     sorted[Len(sorted)])

RECURSIVE sortBy(_, _)
sortBy(s, order) ==
  IF s = <<>> THEN <<>>
  ELSE insertSorted(sortBy(SubSeq(s, 1, Len(s) - 1), order), s[Len(s)], order)

\* Mutant of keepSeverity: the All filter is not recognised.
keepSeverityExact(r, f) == r.severity = f

keepSeverity(r, f) == f = "All" \/ r.severity = f

\* Mutant of keepSearch: the comparison is case-sensitive.
keepSearchCaseSensitive(r, term) ==
  includes(r.title, term) \/ includes(r.description, term)

keepSearch(r, term) ==
  \/ includes(toLowerCase(r.title), toLowerCase(term))
  \/ includes(toLowerCase(r.description), toLowerCase(term))

filterSeverity(s, f) == SelectSeq(s, LAMBDA r : keepSeverity(r, f))
filterSearch(s, term) == SelectSeq(s, LAMBDA r : keepSearch(r, term))

deriveView(incs, f, term, order) ==
  sortBy(filterSearch(filterSeverity(incs, f), term), order)

\* ------------------------------------------------------------ state
VARIABLES
  incidents,          \* useState<Incident[]>: the in-memory record sequence
  filter,             \* severity filter, "All" or a severity
  sortOrder,          \* "newest" or "oldest"
  searchTerm,         \* the search input
  newIncident,        \* the creation form: title, description, severity
  filteredIncidents,  \* the displayed list, set by the view effect
  deletePopup,        \* isOpen, incidentId, title
  toast,              \* the kind of the last notification raised (toast.error/success/info)
  loadState,          \* how far this session's loadIncidentsFromDB has come
  now,                \* the clock that Date.now() and new Date() read
  store,              \* the committed content of the object store "incidents"
  dbq,                \* indexedDB.open requests awaiting their result, in order
  txq,                \* transactions created and not finished, in order
  txnPos,             \* 1 once the first transaction of txq has run its requests, else 0
  txnWork,            \* the working copy of the first transaction of txq
  mutations           \* creates and confirmed deletes handled so far (bounds the run)

uiVars == <<filter, sortOrder, searchTerm, newIncident, deletePopup, toast>>
dbVars == <<store, dbq, txq, txnPos, txnWork>>
vars == <<incidents, filter, sortOrder, searchTerm, newIncident, filteredIncidents,
          deletePopup, toast, loadState, now, store, dbq, txq, txnPos, txnWork,
          mutations>>

loadCall == [kind |-> "load", data |-> <<>>]
\* Mutant of saveCall: the write carries the newest record only.
saveCallNewest(incs) ==
  [kind |-> "save", data |-> IF incs = <<>> THEN incs ELSE <<Head(incs)>>]

saveCall(incs) == [kind |-> "save", data |-> incs]

isSave(c) == c.kind = "save"
Pending == Len(SelectSeq(dbq, isSave)) + Len(SelectSeq(txq, isSave))

\* getAll: every record of the store, in ascending key (id) order.
RECURSIVE getAll(_)
getAll(S) ==
  IF S = {} THEN <<>>
  ELSE LET m == CHOOSE r \in S : \A o \in S : r.id <= o.id
       IN <<m>> \o getAll(S \ {m})

\* The mounted component: empty record set, the load's open request issued.
mounted ==
  /\ incidents = <<>>
  /\ filter = "All"
  /\ sortOrder = "newest"
  /\ searchTerm = Empty
  /\ newIncident = emptyForm
  /\ filteredIncidents = <<>>
  /\ deletePopup = closedPopup
  /\ toast = noToast
  /\ loadState = "pending"

\* What the object store of the browser profile holds when the page is first
\* opened: nothing (first visit), or what an earlier visit left there after
\* deleting two of the three seed records.
FirstStores == {{}, {initialIncidents[2]}}

Init ==
  /\ mounted
  /\ now = ClockStart
  /\ store \in FirstStores
  /\ dbq = <<loadCall>>
  /\ txq = <<>>
  /\ txnPos = 0
  /\ txnWork = {}
  /\ mutations = 0

\* ------------------------------------------------------------ effects
\* "Save incidents to IndexedDB whenever they change": the open requests
\* waiting after the record set became incs.
saveEffect(q, incs) == IF Len(incs) > 0 THEN Append(q, saveCall(incs)) ELSE q

\* Mutant of viewEffect: the effect does not follow the sort order.
viewEffectNewest(incs, f, term, order) == deriveView(incs, f, term, "newest")

\* The view effect after a render with these inputs.
viewEffect(incs, f, term, order) == deriveView(incs, f, term, order)

\* Mutant of afterViewEffect: the effect sorts the record sequence itself.
afterViewEffectSorted(incs, f, term, order) == sortBy(incs, order)

\* The record sequence after the view effect ran on it: the effect filters
\* first, which builds a new array, and sort works in place on that array.
afterViewEffect(incs, f, term, order) == incs

\* setIncidents(incs) and the effects of the render that follows.
setIncidents(incs, q) ==
  /\ incidents' = afterViewEffect(incs, filter', searchTerm', sortOrder')
  /\ dbq' = saveEffect(q, incs)
  /\ filteredIncidents' = viewEffect(incs, filter', searchTerm', sortOrder')

\* ------------------------------------------------------------ form and view inputs
setTitle(v) ==
  /\ newIncident' = [newIncident EXCEPT !.title = v]
  /\ UNCHANGED <<incidents, filter, sortOrder, searchTerm, filteredIncidents,
                 deletePopup, toast, loadState, now, dbVars, mutations>>

setDescription(v) ==
  /\ newIncident' = [newIncident EXCEPT !.description = v]
  /\ UNCHANGED <<incidents, filter, sortOrder, searchTerm, filteredIncidents,
                 deletePopup, toast, loadState, now, dbVars, mutations>>

setSeverity(v) ==
  /\ newIncident' = [newIncident EXCEPT !.severity = v]
  /\ UNCHANGED <<incidents, filter, sortOrder, searchTerm, filteredIncidents,
                 deletePopup, toast, loadState, now, dbVars, mutations>>

setFilter(f) ==
  /\ filter' = f
  /\ filteredIncidents' = viewEffect(incidents, f, searchTerm, sortOrder)
  /\ incidents' = afterViewEffect(incidents, f, searchTerm, sortOrder)
  /\ UNCHANGED <<sortOrder, searchTerm, newIncident, deletePopup, toast,
                 loadState, now, dbVars, mutations>>

setSortOrder(o) ==
  /\ sortOrder' = o
  /\ filteredIncidents' = viewEffect(incidents, filter, searchTerm, o)
  /\ incidents' = afterViewEffect(incidents, filter, searchTerm, o)
  /\ UNCHANGED <<filter, searchTerm, newIncident, deletePopup, toast,
                 loadState, now, dbVars, mutations>>

setSearchTerm(t) ==
  /\ searchTerm' = t
  /\ filteredIncidents' = viewEffect(incidents, filter, t, sortOrder)
  /\ incidents' = afterViewEffect(incidents, filter, t, sortOrder)
  /\ UNCHANGED <<filter, sortOrder, newIncident, deletePopup, toast,
                 loadState, now, dbVars, mutations>>

\* ------------------------------------------------------------ create
newEntry ==
  [id |-> now,
   title |-> newIncident.title,
   description |-> newIncident.description,
   severity |-> newIncident.severity,
   reported_at |-> toISOString(now)]

\* Mutant of invalidForm: only the title is checked.
invalidFormTitleOnly == newIncident.title = Empty

invalidForm == newIncident.title = Empty \/ newIncident.description = Empty

\* Mutant of prepend: the new record goes last.
prependLast(r, incs) == Append(incs, r)

prepend(r, incs) == <<r>> \o incs

\* handleSubmit, taken by the model while fewer than limit saves are pending.
submit(limit) ==
  IF invalidForm
    THEN /\ toast' = "error"
         /\ UNCHANGED <<incidents, filter, sortOrder, searchTerm, newIncident,
                        filteredIncidents, deletePopup, loadState, now, dbVars, mutations>>
    ELSE /\ Pending < limit
         /\ mutations < MaxMutations
         /\ newIncident' = emptyForm
         /\ toast' = "success"
         /\ UNCHANGED <<filter, sortOrder, searchTerm, deletePopup>>
         /\ setIncidents(prepend(newEntry, incidents), dbq)
         /\ mutations' = mutations + 1
         /\ UNCHANGED <<loadState, now, store, txq, txnPos, txnWork>>

handleSubmit == submit(MaxPending)

\* ------------------------------------------------------------ delete
showDeleteConfirm(id, title) ==
  /\ deletePopup' = [isOpen |-> TRUE, incidentId |-> id, title |-> title]
  /\ UNCHANGED <<incidents, filter, sortOrder, searchTerm, newIncident,
                 filteredIncidents, toast, loadState, now, dbVars, mutations>>

\* The Cancel button of the popup.
cancelDelete ==
  /\ deletePopup.isOpen
  /\ deletePopup' = [deletePopup EXCEPT !.isOpen = FALSE]
  /\ UNCHANGED <<incidents, filter, sortOrder, searchTerm, newIncident,
                 filteredIncidents, toast, loadState, now, dbVars, mutations>>

\* A mousedown outside the popup; without a rendered popup the ref is null.
handleClickOutside ==
  /\ deletePopup.isOpen
  /\ deletePopup' = [deletePopup EXCEPT !.isOpen = FALSE]
  /\ UNCHANGED <<incidents, filter, sortOrder, searchTerm, newIncident,
                 filteredIncidents, toast, loadState, now, dbVars, mutations>>

\* Mutant of removeId: with no record of that id, the first record goes.
removeIdOrFirst(incs, id) ==
  IF \E i \in 1..Len(incs) : incs[i].id = id
    THEN SelectSeq(incs, LAMBDA r : r.id # id)
    ELSE IF incs = <<>> THEN incs ELSE Tail(incs)

removeId(incs, id) == SelectSeq(incs, LAMBDA r : r.id # id)

\* The Delete button of the popup, rendered only while the popup is open;
\* taken by the model while fewer than limit saves are pending.
confirm(limit) ==
  /\ deletePopup.isOpen
  /\ Pending < limit
  /\ mutations < MaxMutations
  /\ toast' = "info"
  /\ deletePopup' = closedPopup
  /\ UNCHANGED <<filter, sortOrder, searchTerm, newIncident>>
  /\ setIncidents(removeId(incidents, deletePopup.incidentId), dbq)
  /\ mutations' = mutations + 1
  /\ UNCHANGED <<loadState, now, store, txq, txnPos, txnWork>>

confirmDelete == confirm(MaxPending)

\* ------------------------------------------------------------ clock
Tick ==
  /\ now < MaxClock
  /\ now' = now + 1
  /\ UNCHANGED <<incidents, uiVars, filteredIncidents, loadState, dbVars, mutations>>

\* ------------------------------------------------------------ storage: open
\* Mutant of served: the newest open request is served first.
servedNewest(q) == Len(q)

\* Which waiting open request gets its result next: the open requests for one
\* database are processed in the order they were made.
served(q) == 1

\* request.onsuccess of indexedDB.open for the oldest waiting call: the caller
\* resumes after "await openDB()" and creates its transaction.
openSuccess ==
  /\ dbq # <<>>
  /\ txq' = Append(txq, dbq[served(dbq)])
  /\ dbq' = SubSeq(dbq, 1, served(dbq) - 1) \o SubSeq(dbq, served(dbq) + 1, Len(dbq))
  /\ UNCHANGED <<incidents, uiVars, filteredIncidents, loadState, now, store,
                 txnPos, txnWork, mutations>>

\* Mutant of afterFailedSave: a failed write puts the seed records back.
afterFailedSaveReset(incs) == initialIncidents

\* The record set after a write failed: saveIncidentsToDB logs the error
\* (or rejects a promise nobody awaits) and calls no state setter.
afterFailedSave(incs) == incs

\* request.onerror of indexedDB.open inside saveIncidentsToDB: caught and logged.
saveOpenError ==
  /\ dbq # <<>>
  /\ Head(dbq).kind = "save"
  /\ dbq' = Tail(dbq)
  /\ incidents' = afterFailedSave(incidents)
  /\ UNCHANGED <<uiVars, filteredIncidents, loadState, now, store, txq,
                 txnPos, txnWork, mutations>>

\* Mutant of loadFallback: the catch returns no records.
loadFallbackEmpty == <<>>

\* What the catch block of loadIncidentsFromDB returns.
loadFallback == initialIncidents

\* request.onerror of indexedDB.open inside loadIncidentsFromDB: the catch
\* returns initialIncidents, fetchData sets them.
loadOpenError ==
  /\ dbq # <<>>
  /\ Head(dbq).kind = "load"
  /\ loadState' = "fallback"
  /\ UNCHANGED uiVars
  /\ setIncidents(loadFallback, Tail(dbq))
  /\ UNCHANGED <<now, store, txq, txnPos, txnWork, mutations>>

\* ------------------------------------------------------------ storage: transactions
popTxn ==
  /\ txq' = Tail(txq)
  /\ txnPos' = 0
  /\ txnWork' = {}

\* Mutant of abortsOnError: a failed request is passed over and the
\* transaction goes on.
continuesOnError == FALSE

\* saveIncidentsToDB gives its requests no error handler that prevents the
\* default, so a failed request aborts the transaction.
abortsOnError == TRUE

\* store.add(incident) for each record of the snapshot, in order, on the
\* working copy; an add of a key the working copy already holds fails and adds
\* nothing.
RECURSIVE addAll(_, _)
addAll(work, data) ==
  IF data = <<>> THEN work
  ELSE IF Head(data).id \in Ids(work)
         THEN addAll(work, Tail(data))
         ELSE addAll(work \cup {Head(data)}, Tail(data))

\* Some add of the snapshot fails: two of its records have the same key.
addFails(data) == \E i, j \in 1..Len(data) : i < j /\ data[i].id = data[j].id

\* The requests of the running readwrite transaction, store.clear() and the
\* adds, run on its working copy (no handler of the page runs in between); a
\* failed add aborts the transaction.
txnRequest ==
  /\ txq # <<>>
  /\ Head(txq).kind = "save"
  /\ txnPos = 0
  /\ IF addFails(Head(txq).data) /\ abortsOnError
       THEN /\ popTxn
            /\ incidents' = afterFailedSave(incidents)
       ELSE /\ txnWork' = addAll({}, Head(txq).data)
            /\ txnPos' = 1
            /\ UNCHANGED <<txq, incidents>>
  /\ UNCHANGED <<uiVars, filteredIncidents, loadState, now, store, dbq, mutations>>

\* transaction.oncomplete: the working copy becomes the store's content.
commit(work) == work

txnComplete ==
  /\ txq # <<>>
  /\ Head(txq).kind = "save"
  /\ txnPos = 1
  /\ store' = commit(txnWork)
  /\ popTxn
  /\ UNCHANGED <<incidents, uiVars, filteredIncidents, loadState, now, dbq, mutations>>

\* The running readwrite transaction is aborted (a failed write, or the page
\* going away under it): its working copy is discarded.
txnAbort ==
  /\ txq # <<>>
  /\ Head(txq).kind = "save"
  /\ popTxn
  /\ incidents' = afterFailedSave(incidents)
  /\ UNCHANGED <<uiVars, filteredIncidents, loadState, now, store, dbq, mutations>>

\* Mutant of loadResult: the result of getAll as it is, empty or not.
loadResultUnseeded(result) == result

\* What loadIncidentsFromDB resolves with, given the result of getAll.
loadResult(result) == IF Len(result) > 0 THEN result ELSE initialIncidents

\* The open requests waiting after request.onsuccess of getAll ran.
seedCalls(q, result) ==
  IF Len(result) > 0 THEN q ELSE Append(q, saveCall(initialIncidents))

\* request.onsuccess of store.getAll() in the readonly transaction, and
\* fetchData's setIncidents(data).
loadSuccess ==
  /\ txq # <<>>
  /\ Head(txq).kind = "load"
  /\ loadState' = IF Len(getAll(store)) > 0 THEN "loaded" ELSE "seeded"
  /\ UNCHANGED uiVars
  /\ setIncidents(loadResult(getAll(store)), seedCalls(dbq, getAll(store)))
  /\ popTxn
  /\ UNCHANGED <<now, store, mutations>>

\* request.onerror of store.getAll(): the promise rejects, outside the try
\* block's reach; fetchData never reaches setIncidents.
loadError ==
  /\ txq # <<>>
  /\ Head(txq).kind = "load"
  /\ loadState' = "failed"
  /\ popTxn
  /\ UNCHANGED <<incidents, uiVars, filteredIncidents, now, store, dbq, mutations>>

\* ------------------------------------------------------------ session
\* The page is loaded again (which takes time): the component mounts afresh and
\* issues its load; calls of the old page that had not created their
\* transaction are gone, its readwrite transactions still complete or abort.
Reload ==
  /\ loadState # "pending"
  /\ now < MaxClock
  /\ now' = now + 1
  /\ incidents' = <<>>
  /\ filter' = "All"
  /\ sortOrder' = "newest"
  /\ searchTerm' = Empty
  /\ newIncident' = emptyForm
  /\ filteredIncidents' = <<>>
  /\ deletePopup' = closedPopup
  /\ toast' = noToast
  /\ loadState' = "pending"
  /\ dbq' = <<loadCall>>
  /\ txq' = SelectSeq(txq, isSave)
  /\ UNCHANGED <<store, txnPos, txnWork, mutations>>

\* ------------------------------------------------------------ specifications
\* Spec: one browser profile over several page loads, storage that works.  The
\* view inputs and the severity buttons stay at their defaults here (they are
\* exercised by SpecView and SpecCreate).
Next ==
  \/ \E v \in Titles : setTitle(v)
  \/ \E v \in Descriptions : setDescription(v)
  \/ handleSubmit
  \/ \E i \in 1..Len(filteredIncidents) :
       showDeleteConfirm(filteredIncidents[i].id, filteredIncidents[i].title)
  \/ cancelDelete
  \/ handleClickOutside
  \/ confirmDelete
  \/ Tick
  \/ openSuccess
  \/ txnRequest
  \/ txnComplete
  \/ loadSuccess
  \/ Reload

Spec == Init /\ [][Next]_vars

\* SpecFaulty: one page load, storage whose open, read and write can fail.  A
\* requested deletion is confirmed here (cancelling is part of Spec) and the
\* events fall within one reading of the clock (its advance is part of Spec
\* and SpecCreate).
NextFaulty ==
  \/ \E v \in Titles : setTitle(v)
  \/ \E v \in Descriptions : setDescription(v)
  \/ handleSubmit
  \/ \E i \in 1..Len(filteredIncidents) :
       showDeleteConfirm(filteredIncidents[i].id, filteredIncidents[i].title)
  \/ confirmDelete
  \/ openSuccess
  \/ saveOpenError
  \/ loadOpenError
  \/ txnRequest
  \/ txnComplete
  \/ txnAbort
  \/ loadSuccess
  \/ loadError

SpecFaulty == Init /\ [][NextFaulty]_vars

\* SpecCreate: the creation form with every input, one page load, storage that
\* works.
NextCreate ==
  \/ \E v \in Titles : setTitle(v)
  \/ \E v \in Descriptions : setDescription(v)
  \/ \E v \in Severities : setSeverity(v)
  \/ handleSubmit
  \/ Tick
  \/ openSuccess
  \/ txnRequest
  \/ txnComplete
  \/ loadSuccess

SpecCreate == Init /\ [][NextCreate]_vars

\* SpecBurst: one page load, storage that works, and user mutations handled
\* back to back, while the writes of earlier ones are still on their way.
NextBurst ==
  \/ \E v \in Titles : setTitle(v)
  \/ \E v \in Descriptions : setDescription(v)
  \/ submit(MaxBurst)
  \/ \E i \in 1..Len(filteredIncidents) :
       showDeleteConfirm(filteredIncidents[i].id, filteredIncidents[i].title)
  \/ confirm(MaxBurst)
  \/ Tick
  \/ openSuccess
  \/ txnRequest
  \/ txnComplete
  \/ loadSuccess

SpecBurst == Init /\ [][NextBurst]_vars

\* SpecLive: a loaded session showing the seed records, in which the user
\* changes the view inputs and the record set in any order, within one reading
\* of the clock and before the storage has answered.
InitLive ==
  /\ incidents = initialIncidents
  /\ filter = "All"
  /\ sortOrder = "newest"
  /\ searchTerm = Empty
  /\ newIncident = emptyForm
  /\ filteredIncidents = viewEffect(initialIncidents, "All", Empty, "newest")
  /\ deletePopup = closedPopup
  /\ toast = noToast
  /\ loadState = "loaded"
  /\ now = ClockStart
  /\ store = Range(initialIncidents)
  /\ dbq = <<>>
  /\ txq = <<>>
  /\ txnPos = 0
  /\ txnWork = {}
  /\ mutations = 0

NextLive ==
  \/ \E f \in Filters : setFilter(f)
  \/ \E o \in SortOrders : setSortOrder(o)
  \/ \E t \in SearchTerms : setSearchTerm(t)
  \/ \E v \in Titles : setTitle(v)
  \/ \E v \in Descriptions : setDescription(v)
  \/ submit(MaxBurst)
  \/ \E i \in 1..Len(filteredIncidents) :
       showDeleteConfirm(filteredIncidents[i].id, filteredIncidents[i].title)
  \/ confirm(MaxBurst)

SpecLive == InitLive /\ [][NextLive]_vars

\* SpecView: the view derivation on record sequences drawn from a bounded
\* universe (distinct ids, two report times, every severity), a loaded session
\* with nothing pending.
ViewTimes == {ClockStart, ClockStart + 1}
ViewTexts == {<<TitleAb, <<"c">>>>, <<<<"c">>, <<"B">>>>}

viewRecord(i, c) ==
  [id |-> ClockStart + i, title |-> c[3][1], description |-> c[3][2],
   severity |-> c[1], reported_at |-> toISOString(c[2])]

ViewChoices == Severities \X ViewTimes \X ViewTexts

InitView ==
  /\ \E n \in 0..MaxViewLen :
       \E c \in [1..n -> ViewChoices] :
         incidents = [i \in 1..n |-> viewRecord(i, c[i])]
  /\ filter = "All"
  /\ sortOrder = "newest"
  /\ searchTerm = Empty
  /\ newIncident = emptyForm
  /\ filteredIncidents = viewEffect(incidents, "All", Empty, "newest")
  /\ deletePopup = closedPopup
  /\ toast = noToast
  /\ loadState = "loaded"
  /\ now = MaxClock
  /\ store = Range(incidents)
  /\ dbq = <<>>
  /\ txq = <<>>
  /\ txnPos = 0
  /\ txnWork = {}
  /\ mutations = 0

NextView ==
  \/ \E f \in Filters : setFilter(f)
  \/ \E o \in SortOrders : setSortOrder(o)
  \/ \E t \in SearchTerms : setSearchTerm(t)

SpecView == InitView /\ [][NextView]_vars

\* ------------------------------------------------------------ claims
Count(s, r) == Cardinality({i \in 1..Len(s) : s[i] = r})

\* The same records, each as many times, order aside.
SameRecords(s, t) ==
  /\ Len(s) = Len(t)
  /\ \A r \in Range(s) \cup Range(t) : Count(s, r) = Count(t, r)

Quiescent == dbq = <<>> /\ txq = <<>> /\ loadState # "pending"

\* C1: once the session has loaded and every write it issued has finished, a
\* load of the store (getAll, or the seed set for an empty store) returns
\* exactly the in-memory records: none dropped, none duplicated.
C1_RoundTrip ==
  Quiescent =>
    SameRecords(IF store = {} THEN initialIncidents ELSE getAll(store), incidents)

\* C2: every create and every confirmed delete that changes the record set
\* issues a save carrying the full new record set, whatever its size.
C2_SaveOnEveryMutation ==
  [][(mutations' = mutations + 1 /\ incidents' # incidents)
       => dbq' = Append(dbq, [kind |-> "save", data |-> incidents'])]_vars

\* C7: no two incidents of the in-memory record set have the same id.
C7_IdsUnique ==
  \A i, j \in 1..Len(incidents) : i # j => incidents[i].id # incidents[j].id

\* C3: within one page session, requesting a deletion and cancelling it (Cancel
\* button or click outside) leave the record set unchanged, and a record leaves
\* the record set only in a step of confirmDelete taken while the popup is open
\* for that record's id.  A page reload starts a new session and is the only
\* step left aside.
C3_DeleteTwoPhase ==
  [][/\ (deletePopup'.isOpen /\ deletePopup' # deletePopup) => incidents' = incidents
     /\ (deletePopup.isOpen /\ deletePopup' = [deletePopup EXCEPT !.isOpen = FALSE])
          => incidents' = incidents
     /\ ~(loadState # "pending" /\ loadState' = "pending") =>
          \A i \in 1..Len(incidents) :
            Count(incidents', incidents[i]) < Count(incidents, incidents[i]) =>
              /\ deletePopup.isOpen
              /\ deletePopup.incidentId = incidents[i].id
              /\ ~deletePopup'.isOpen
              /\ toast' = "info"]_vars

SeedSet == {initialIncidents[i] : i \in 1..3}

\* C5: a load that finds the store empty returns the three seed records and
\* issues the write that populates the store with them (and that write, when
\* it completes, leaves exactly the seed set in the store); a load that finds
\* the seed set returns it unmodified, in order, and issues no seed write; no
\* completed load returns an empty record set.
C5_SeedOnce ==
  [][/\ (loadState = "pending" /\ loadState' # "pending") =>
          /\ store = {} =>
               /\ incidents' = initialIncidents
               /\ loadState' = "seeded"
               /\ dbq' = dbq \o << [kind |-> "save", data |-> initialIncidents],
                                  [kind |-> "save", data |-> initialIncidents] >>
          /\ store = SeedSet =>
               /\ incidents' = initialIncidents
               /\ loadState' = "loaded"
               /\ dbq' = Append(dbq, [kind |-> "save", data |-> initialIncidents])
          /\ incidents' # <<>>
     /\ (store' # store /\ Head(txq).data = initialIncidents) => store' = SeedSet]_vars

\* C5 witness: a later page load has read the seed set back from the store.
C5_Witness ==
  /\ loadState = "loaded"
  /\ incidents = initialIncidents
  /\ store = SeedSet
  /\ mutations = 0

\* C4: a submit with an empty title or an empty description raises the error
\* notification and changes nothing else: record set, store, pending writes
\* and form fields stay as they were; and the error is raised for no other
\* submit.
C4_ValidationRejection ==
  [][/\ (newIncident.title = <<>> \/ newIncident.description = <<>>) =>
          /\ mutations' = mutations
          /\ toast' \in {toast, "error"}
          /\ toast' # toast =>
               UNCHANGED <<incidents, filteredIncidents, newIncident, store, dbq, txq,
                           txnPos, txnWork, deletePopup>>
     /\ (toast' = "error" /\ toast # "error") =>
          (newIncident.title = <<>> \/ newIncident.description = <<>>)]_vars

\* C4 witness: after the load, a submit with a title and no description was
\* rejected.
C4_Witness ==
  /\ toast = "error"
  /\ newIncident.title # <<>>
  /\ newIncident.description = <<>>
  /\ incidents = initialIncidents

\* C6: the committed content of the store changes only when a save's
\* transaction completes, and then to the complete snapshot of that save (every
\* record of it, never empty); a transaction that is aborted, or whose add
\* fails, leaves the previous content in place.
C6_ReplaceAllAtomic ==
  [][store' # store =>
       /\ txq # <<>>
       /\ Head(txq).kind = "save"
       /\ store' = Range(Head(txq).data)
       /\ Cardinality(store') = Len(Head(txq).data)
       /\ store' # {}]_vars

\* C6 witness: a save whose second add failed on a duplicate id has been
\* aborted, and the store shows the complete previous set (the seed records
\* and the first of the two incidents created with one id).
C6_Witness ==
  /\ dbq = <<>> /\ txq = <<>>
  /\ \E i, j \in 1..Len(incidents) : i < j /\ incidents[i].id = incidents[j].id
  /\ SeedSet \subseteq store
  /\ Cardinality(store) = Len(incidents) - 1

\* C8: a submit with a title and a description puts the new incident (the
\* submitted title, description and severity, reported at the current time)
\* in front of the previous record sequence, which is otherwise kept as it was,
\* and issues the save of the new sequence.
C8_CreatePrepends ==
  [][mutations' = mutations + 1 =>
       /\ Len(incidents') = Len(incidents) + 1
       /\ incidents'[1].title = newIncident.title
       /\ incidents'[1].description = newIncident.description
       /\ incidents'[1].severity = newIncident.severity
       /\ incidents'[1].id = now
       /\ getTime(incidents'[1].reported_at) = now
       /\ incidents'[1].title # <<>> /\ incidents'[1].description # <<>>
       /\ \A i \in 1..Len(incidents) : incidents'[i + 1] = incidents[i]
       /\ dbq' = Append(dbq, [kind |-> "save", data |-> incidents'])]_vars

\* C8 witness: a High incident was created in front of the three seed records.
C8_Witness ==
  /\ toast = "success"
  /\ Len(incidents) = 4
  /\ incidents[1].severity = "High"
  /\ \A i \in 1..3 : incidents[i + 1] = initialIncidents[i]

\* C9: with an empty search term, the derived view holds exactly the records
\* of the record set whose severity is the filter's (each once per occurrence),
\* and every record of the record set when the filter is All.
C9_FilterCorrect ==
  searchTerm = <<>> =>
    \A r \in Range(incidents) \cup Range(filteredIncidents) :
      Count(filteredIncidents, r) =
        IF filter = "All" \/ r.severity = filter THEN Count(incidents, r) ELSE 0

\* C9 witness: the High filter keeps two records of three.
C9_Witness ==
  /\ searchTerm = <<>>
  /\ filter = "High"
  /\ Len(incidents) = 3
  /\ Len(filteredIncidents) = 2

\* Where the record with r's id stands in the record sequence.
PosOf(r) == CHOOSE i \in 1..Len(incidents) : incidents[i].id = r.id

\* C10: the derived view is ordered by report time, descending for newest and
\* ascending for oldest, and records with the same report time stand in the
\* order they have in the record sequence, under both sort orders.
C10_SortStable ==
  \A i, j \in 1..Len(filteredIncidents) :
    i < j =>
      LET a == filteredIncidents[i]
          b == filteredIncidents[j]
          ta == a.reported_at.date * DayLen + a.reported_at.time
          tb == b.reported_at.date * DayLen + b.reported_at.time
      IN /\ sortOrder = "newest" => ta >= tb
         /\ sortOrder = "oldest" => ta <= tb
         /\ ta = tb => PosOf(a) < PosOf(b)

\* C10 witness: under oldest, two records reported at the same time follow an
\* earlier one that stands last in the record sequence.
C10_Witness ==
  /\ sortOrder = "oldest"
  /\ Len(filteredIncidents) = 3
  /\ filteredIncidents[2].reported_at = filteredIncidents[3].reported_at
  /\ filteredIncidents[1].reported_at # filteredIncidents[2].reported_at
  /\ filteredIncidents[1] = incidents[3]
\* The same letter, case aside.
LetterPairs == {<<"A", "a">>, <<"B", "b">>, <<"C", "c">>, <<"L", "l">>, <<"M", "m">>}
SameLetter(x, y) == x = y \/ <<x, y>> \in LetterPairs \/ <<y, x>> \in LetterPairs

\* The term occurs in the text at some offset, letter by letter, case aside.
OccursIn(term, text) ==
  \E i \in 0..(Len(text) - Len(term)) :
    \A k \in 1..Len(term) : SameLetter(text[i + k], term[k])

\* C11: a record that passed the severity filter is in the derived view (as
\* many times as in the record set) if and only if the search term is empty
\* or occurs in its title or in its description, case aside.
C11_SearchCorrect ==
  \A r \in Range(incidents) \cup Range(filteredIncidents) :
    (filter = "All" \/ r.severity = filter) =>
      Count(filteredIncidents, r) =
        IF \/ searchTerm = <<>>
           \/ OccursIn(searchTerm, r.title)
           \/ OccursIn(searchTerm, r.description)
          THEN Count(incidents, r) ELSE 0

\* C11 witness: the term "a" keeps the record titled "Ab" and drops the one
\* whose title and description hold no a of either case.
C11_Witness ==
  /\ searchTerm = <<"a">>
  /\ Len(incidents) = 2
  /\ Len(filteredIncidents) = 1
  /\ filteredIncidents[1].title = <<"A", "b">>
\* C12: when the open request of the initial load fails, the load yields the
\* three seed records and writes nothing; in the session that follows, every
\* valid submit puts its record in front of the record set and every
\* confirmed delete takes the popup's record out, and a failing open of a
\* save leaves record set and store as they were.
C12_StorageFallback ==
  [][/\ (loadState = "pending" /\ loadState' = "fallback") =>
          /\ incidents' = initialIncidents
          /\ filteredIncidents' # <<>>
          /\ store' = store /\ txq' = txq
     /\ (loadState = "fallback" /\ loadState' = "fallback") =>
          /\ (mutations' = mutations + 1 /\ toast' = "success") =>
               /\ Len(incidents') = Len(incidents) + 1
               /\ incidents'[1].title = newIncident.title
               /\ incidents'[1].description = newIncident.description
               /\ \A i \in 1..Len(incidents) : incidents'[i + 1] = incidents[i]
          /\ (mutations' = mutations + 1 /\ toast' = "info") =>
               /\ \A i \in 1..Len(incidents') : incidents'[i].id # deletePopup.incidentId
               /\ \A r \in Range(incidents) :
                    r.id # deletePopup.incidentId => Count(incidents', r) = Count(incidents, r)
          /\ (Len(dbq') < Len(dbq) /\ txq' = txq) =>
               /\ incidents' = incidents
               /\ store' = store]_vars

\* C12 witness: after the failed open both handlers went through: with the
\* store never written, a created incident stands in front of two of the seed
\* records (the third was deleted).
C12_Witness ==
  /\ loadState = "fallback"
  /\ store \in FirstStores
  /\ Len(incidents) = 3
  /\ incidents[1].title = TitleAb
  /\ toast = "info"
\* A write fails in this step: the open request of a save fails, or the
\* readwrite transaction of a save ends without its snapshot being committed.
SaveFails ==
  \/ /\ dbq # <<>> /\ Head(dbq).kind = "save"
     /\ dbq' = Tail(dbq) /\ txq' = txq
  \/ /\ txq # <<>> /\ Head(txq).kind = "save"
     /\ txq' = Tail(txq)
     /\ txnPos = 0 \/ store' # txnWork

\* C13: a step in which a write fails leaves the record set, the displayed
\* list and the form, popup and notification as they were; the record set
\* changes only when a create, a confirmed delete or the load's completion is
\* handled, and after failed writes a create still puts its record in front
\* and a confirmed delete still takes the popup's record out.
C13_FailedWriteKeepsMemory ==
  [][/\ SaveFails =>
          /\ incidents' = incidents
          /\ filteredIncidents' = filteredIncidents
          /\ UNCHANGED uiVars
     /\ incidents' # incidents =>
          \/ mutations' = mutations + 1
          \/ loadState = "pending" /\ loadState' # "pending"
     /\ (mutations' = mutations + 1 /\ toast' = "success") =>
          /\ Len(incidents') = Len(incidents) + 1
          /\ \A i \in 1..Len(incidents) : incidents'[i + 1] = incidents[i]
     /\ (mutations' = mutations + 1 /\ toast' = "info") =>
          incidents' = SelectSeq(incidents, LAMBDA r : r.id # deletePopup.incidentId)]_vars

\* C13 witness: every write of the session failed (the store was never
\* seeded), and the record set holds the seed records changed by a create and
\* a confirmed delete that came after the first failure.
C13_Witness ==
  /\ loadState = "seeded"
  /\ store = {}
  /\ dbq = <<>> /\ txq = <<>>
  /\ mutations = 2
  /\ Len(incidents) = 3
  /\ incidents[1].id = now
\* C14: every write issued carries the full record set of the moment, and a
\* write that completes leaves in the store exactly that snapshot, each record
\* once: whatever earlier writes failed, the store then equals the record set
\* as of the mutation that issued the write, with no retry of the failed ones.
C14_SelfHealing ==
  [][/\ Len(dbq') > Len(dbq) =>
          /\ dbq'[Len(dbq')].kind = "save"
          /\ dbq'[Len(dbq')].data = incidents'
     /\ (txq # <<>> /\ Head(txq).kind = "save" /\ txq' = Tail(txq)
           /\ txnPos = 1 /\ store' = txnWork) =>
          /\ store' = Range(Head(txq).data)
          /\ Cardinality(store') = Len(Head(txq).data)]_vars

\* C14 witness: the write of a created incident failed (the store does not
\* hold it and no other write is pending); the write issued by the confirmed
\* delete that followed has run its requests and is completing with the full
\* record set, the created incident included.
C14_Witness ==
  /\ toast = "info"
  /\ dbq = <<>> /\ Len(txq) = 1 /\ txnPos = 1
  /\ Head(txq).data = incidents
  /\ txnWork = Range(incidents)
  /\ \E r \in Range(incidents) : r.id = now /\ r \notin store
\* C15: however the load ends, loadIncidentsFromDB completes with a record
\* set and not with an error nobody catches (loadState "failed"), and the
\* session then holds records: the loaded ones, or the seed records after a
\* failed open or a failed read.
C15_FailuresHandled ==
  [][(loadState = "pending" /\ loadState' # "pending") =>
       /\ loadState' \in {"loaded", "seeded", "fallback"}
       /\ incidents' # <<>>
       /\ loadState' = "fallback" => incidents' = initialIncidents]_vars
\* The saves on their way, oldest first: those with a transaction, then those
\* waiting for their open.
PendingSaves == SelectSeq(txq \o dbq, isSave)

\* C16: in a loaded session with records, while writes are on their way the
\* one that will be written last carries the current record set (the snapshot
\* of the latest mutation), so no older snapshot is written over it; and once
\* all have completed the store holds exactly the current record set (given
\* ids that differ, without which the latest write does not complete).
C16_LastWriteWins ==
  (loadState # "pending" /\ incidents # <<>>) =>
    IF PendingSaves # <<>>
      THEN PendingSaves[Len(PendingSaves)].data = incidents
      ELSE (\A i, j \in 1..Len(incidents) : i # j => incidents[i].id # incidents[j].id)
             => store = Range(incidents)

\* C16 witness: a create and a confirmed delete were handled back to back:
\* the writes of both wait for their open at the same time, the older with
\* the record the delete took out, both with the created one.
C16_Witness ==
  /\ loadState # "pending"
  /\ mutations = 2
  /\ toast = "info"
  /\ Len(dbq) = 2
  /\ dbq[2].data = incidents
  /\ Len(incidents) >= 2
  /\ incidents[1].id >= ClockStart
  /\ Len(dbq[1].data) = Len(incidents) + 1
  /\ Range(incidents) \subseteq Range(dbq[1].data)
\* C17: once the user has deleted every record and nothing is on its way to
\* the store, the next load (that of a reloaded page, say) finds the store
\* empty, returns the three seed records and issues the write that seeds the
\* store with them.
C17_ReseedOnEmpty ==
  (Quiescent /\ incidents = <<>>) =>
    /\ getAll(store) = <<>>
    /\ loadResult(getAll(store)) = initialIncidents
    /\ seedCalls(<<>>, getAll(store)) = <<[kind |-> "save", data |-> initialIncidents]>>
\* C18: a confirmed delete whose popup names an id that no record of the
\* record set has leaves the record sequence and the displayed list as they
\* were and raises the deletion notice, not the error notification.
C18_DeleteMissingIsNoOp ==
  [][(/\ deletePopup.isOpen /\ ~deletePopup'.isOpen
      /\ mutations' = mutations + 1
      /\ \A i \in 1..Len(incidents) : incidents[i].id # deletePopup.incidentId) =>
       /\ incidents' = incidents
       /\ filteredIncidents' = filteredIncidents
       /\ toast' = "info"]_vars

\* C18 witness: the popup was opened for an incident created before the load
\* completed; the load replaced the record set by the stored record; the
\* delete was then confirmed: the stored record is still the record set, the
\* load's write has completed and the write the confirmation issued is waiting.
C18_Witness ==
  /\ loadState = "loaded"
  /\ mutations = 2
  /\ toast = "info"
  /\ incidents = <<initialIncidents[2]>>
  /\ store = {initialIncidents[2]}
  /\ dbq = <<[kind |-> "save", data |-> incidents]>>
  /\ txq = <<>>
\* C19: between any two events the displayed list is the filter, then the
\* search, then the sort of the current record set under the current filter,
\* search term and sort order; it shows no record that the record set does not
\* hold.
C19_ViewCurrent ==
  /\ filteredIncidents = deriveView(incidents, filter, searchTerm, sortOrder)
  /\ Range(filteredIncidents) \subseteq Range(incidents)

\* C19 witness: with the search term "a" and oldest first, an incident
\* titled "Ab" was created and the one seed record that matched was deleted:
\* the list shows the created incident alone.
C19_Witness ==
  /\ searchTerm = <<"a">>
  /\ sortOrder = "oldest"
  /\ toast = "info"
  /\ mutations = 2
  /\ Len(incidents) = 3
  /\ Len(filteredIncidents) = 1
  /\ filteredIncidents[1].id = now
\* C20: the step in which the initial load completes and sets the record set
\* keeps every incident that was created while the load was in flight.
C20_LoadKeepsCreated ==
  [][(loadState = "pending" /\ loadState' # "pending") =>
       \A i \in 1..Len(incidents) : Count(incidents', incidents[i]) >= 1]_vars
\* C21: a step that changes the severity filter, the search term or the sort
\* order leaves the record sequence, the store and the writes on their way as
\* they were; and the recomputation of the view that follows a create or a
\* confirmed delete leaves the record sequence as the handler made it (the new
\* record in front of the old sequence; the old sequence without the popup's
\* record) and comes with the one write of that sequence.
C21_ViewReadOnly ==
  [][/\ (filter' # filter \/ searchTerm' # searchTerm \/ sortOrder' # sortOrder) =>
          /\ incidents' = incidents
          /\ store' = store
          /\ dbq' = dbq /\ txq' = txq /\ txnWork' = txnWork
     /\ (mutations' = mutations + 1 /\ toast' = "success") =>
          /\ incidents' # <<>>
          /\ Tail(incidents') = incidents
          /\ dbq' = Append(dbq, [kind |-> "save", data |-> incidents'])
     /\ (mutations' = mutations + 1 /\ toast' = "info") =>
          /\ incidents' = SelectSeq(incidents, LAMBDA r : r.id # deletePopup.incidentId)
          /\ Len(dbq') <= Len(dbq) + 1]_vars

\* C21 witness: with one write waiting, the list is shown oldest first, in an
\* order that is not the record sequence's; the record sequence is still the
\* created incident followed by the seed records in their order, the store and
\* the waiting write are as the create left them.
C21_Witness ==
  /\ sortOrder = "oldest"
  /\ mutations = 1
  /\ Len(incidents) = 4
  /\ incidents[1].id = now
  /\ Tail(incidents) = initialIncidents
  /\ Len(filteredIncidents) = 4
  /\ filteredIncidents # incidents
  /\ store = Range(initialIncidents)
  /\ dbq = <<[kind |-> "save", data |-> incidents]>>
====
